---- MODULE Spec2Model ----
(***************************************************************************)
(* Model of the migration engine of streamlit_app.py: the "Migrate Data"   *)
(* handler (DB -> DB, lines 446-574) and the "Load File -> DB" handler     *)
(* (lines 753-788).                                                        *)
(*                                                                         *)
(* A source row is [k, bad]: k is the value of the destination's key       *)
(* column, bad says that the destination refuses the row's values with an  *)
(* error that is not an integrity error (DataError).  A fetched row        *)
(* carries its position in the source result as id; a destination row is   *)
(* [k, id], id = 0 for a row that was there before the run.                *)
(*                                                                         *)
(* The destination is the environment of the handler.  It is modelled by   *)
(* what the backends the handler names can do:                             *)
(*  - a table whose key is unique (a primary key, or a unique constraint  *)
(*    on a table without primary key) refuses a second row with the same   *)
(*    k (IntegrityError);                                                  *)
(*  - a statement that fails applies none of its rows, but                 *)
(*    execute(insert, list) is an executemany, which a driver may run row  *)
(*    by row: the rows before the failing one may stay applied;            *)
(*  - on PostgreSQL a failed statement aborts the open transaction: every  *)
(*    later statement raises InternalError and COMMIT rolls back.          *)
(*                                                                         *)
(* normalize_rows_for_dest (lines 324-429) is modelled on one column of a  *)
(* batch, over Python values given as type name and text; SpecNorm runs    *)
(* the handler from the fetched batch through line 500.                    *)
(***************************************************************************)
EXTENDS Integers, Sequences, FiniteSets, TLC

MaxRows == 3

Keys == {1, 2}

Policies == {"error (strict)", "skip duplicates", "upsert/update (PG/MySQL)"}

Dialects == {"postgresql", "mysql", "mssql"}

\* the key of a row the destination refuses for its values plays no part
SrcRow == {r \in [k : Keys, bad : BOOLEAN] : r.bad => r.k = 1}

RowSeqs == UNION {[1..n -> SrcRow] : n \in 0..MaxRows}

ShortRowSeqs == {r \in RowSeqs : Len(r) <= 1}

ChunkSizes == 1..MaxRows

(***************************************************************************)
(* Mapping expressions are strings, modelled as sequences of characters.   *)
(***************************************************************************)
E_id == <<"i", "d">>

E_val == <<"v", "a", "l">>

E_null == <<"n", "u", "l", "l">>

E_lit == <<"'", "c", "'">>

E_nosuch == <<"z", "z">>

E_empty == <<>>

Exprs == {E_id, E_val, E_null, E_lit, E_nosuch, E_empty}

DestCols == {"id", "val"}

SrcCols == {E_id, E_val}

UpperChar(c) ==
    CASE c = "n" -> "N"
      [] c = "u" -> "U"
      [] c = "l" -> "L"
      [] c = "i" -> "I"
      [] c = "d" -> "D"
      [] c = "v" -> "V"
      [] c = "a" -> "A"
      [] c = "c" -> "C"
      [] c = "z" -> "Z"
      [] OTHER -> c

Upper(s) == [i \in 1..Len(s) |-> UpperChar(s[i])]

VARIABLES
    mode,               \* "db" or "file": the tab whose button is pressed
    raw_mapping,        \* st.session_state[map_key] / the edited file mapping
    src_rows,           \* the rows the source SELECT yields, in order
    chunk_size,
    conf_policy,
    continue_on_error,
    dialect,            \* dst_type.lower()
    dst_pk,             \* the destination table's primary key columns
    dst_unique,         \* the destination table has a unique constraint on its key
    dest0,              \* the destination table before the run
    pk_cols,
    pc,
    pos,                \* rows the cursor has delivered
    dict_rows,          \* the batch being written
    fb_i,               \* position of the row fallback loop in dict_rows
    total, inserted, duplicates, rejected,
    rejected_rows,
    dest,               \* the destination table as the open transaction sees it
    committed,          \* the destination table as committed
    txn_failed,         \* PostgreSQL: the open transaction is aborted
    report,             \* what the handler shows when it ends
    src_queries,        \* statements executed against the source
    dst_queries,        \* statements executed against the destination
    batches_done,       \* batches whose write has finished
    at_boundary,        \* <<inserted, duplicates, rejected, dest>> at the last batch boundary
    set_applied,        \* rows a failed executemany of this batch left applied
    set_failed,         \* a set-based write of this run has failed
    done,               \* file load: rows of the file inserted so far
    coerce_invalid,     \* the checkbox of line 435
    val_type,           \* the branch of normalize_rows_for_dest the column's type selects
    val_col,            \* the values of one column of the fetched batch
    val_norm,           \* that column after normalize_rows_for_dest
    run_no,             \* 1, or 2 when the button was pressed again
    prev                \* what the first run left, when run_no = 2

cfg_vars == <<mode, raw_mapping, src_rows, chunk_size, conf_policy,
              continue_on_error, dialect, dst_pk, dst_unique, dest0>>

norm_vars == <<coerce_invalid, val_type, val_col, val_norm>>

run_vars == <<pk_cols, pc, pos, dict_rows, fb_i, total, inserted, duplicates,
              rejected, rejected_rows, dest, committed, txn_failed, report,
              src_queries, dst_queries, batches_done, at_boundary, set_applied,
              set_failed, done>>

two_vars == <<run_no, prev>>

vars == <<cfg_vars, norm_vars, run_vars, two_vars>>

-----------------------------------------------------------------------------
(* Mapping *)

\* line 319: keep the destination columns with a non-empty expression
final_mapping == [d \in {c \in DestCols : raw_mapping[c] # E_empty} |-> raw_mapping[d]]

\* lines 458-460: an expression that is not NULL and does not start with a
\* quote is passed to quote_source_identifier and becomes a column reference
IsSelectColumnRef(expr) ==
    /\ Upper(expr) # <<"N", "U", "L", "L">>
    /\ ~(Len(expr) > 0 /\ expr[1] = "'")

\* the SELECT names these columns; the source raises when one does not exist
SelectUnresolved ==
    {d \in DOMAIN final_mapping :
        IsSelectColumnRef(final_mapping[d]) /\ final_mapping[d] \notin SrcCols}

-----------------------------------------------------------------------------
(* Destination backend *)

HasKey(d, k) == \E i \in 1..Len(d) : d[i].k = k

\* the key is unique when it is the primary key or under a unique constraint
Unique == dst_unique

DestRow(r) == [k |-> r.k, id |-> r.id]

\* dconn.execute(dtbl.insert(), row): the outcome of one plain INSERT
RowOutcome(d, failed, r) ==
    IF failed THEN "InternalError"
    ELSE IF r.bad THEN "DataError"
    ELSE IF Unique /\ HasKey(d, r.k) THEN "IntegrityError"
    ELSE "ok"

\* the first row of rows (from i on) that a row-by-row run refuses, 0 if none
RECURSIVE FirstRefused(_, _, _)
FirstRefused(d, rows, i) ==
    IF i > Len(rows) THEN 0
    ELSE IF RowOutcome(d, FALSE, rows[i]) # "ok" THEN i
    ELSE FirstRefused(Append(d, DestRow(rows[i])), rows, i + 1)

RECURSIVE AppendRows(_, _, _)
AppendRows(d, rows, n) ==
    IF n = 0 THEN d
    ELSE Append(AppendRows(d, rows, n - 1), DestRow(rows[n]))

\* an insert that ignores no conflict
IgnoreRows_PlainInsert(d, rows, n) == AppendRows(d, rows, n)

\* the content after rows 1..n of an ignore-on-conflict insert
RECURSIVE IgnoreRows(_, _, _)
IgnoreRows(d, rows, n) ==
    IF n = 0 THEN d
    ELSE LET p == IgnoreRows(d, rows, n - 1)
         IN  IF Unique /\ HasKey(p, rows[n].k) THEN p
             ELSE Append(p, DestRow(rows[n]))

Overwrite(d, r) == [i \in 1..Len(d) |-> IF d[i].k = r.k THEN DestRow(r) ELSE d[i]]

\* the content after rows 1..n of an update-on-conflict insert
RECURSIVE UpsertRows(_, _, _)
UpsertRows(d, rows, n) ==
    IF n = 0 THEN d
    ELSE LET p == UpsertRows(d, rows, n - 1)
         IN  IF Unique /\ HasKey(p, rows[n].k) THEN Overwrite(p, rows[n])
             ELSE Append(p, DestRow(rows[n]))

AnyBad(rows) == \E i \in 1..Len(rows) : rows[i].bad

SameKeyTwice(rows) ==
    \E i, j \in 1..Len(rows) : i < j /\ rows[i].k = rows[j].k

\* PostgreSQL: a statement that fails leaves the transaction aborted
FailedAfterError(failed) == failed \/ dialect = "postgresql"

-----------------------------------------------------------------------------
(* Set-based write of a batch, lines 503-529 *)

\* no set-based write without a known key set
SetBasedSupported_NeedsKey ==
    CASE conf_policy = "error (strict)" -> TRUE
      [] OTHER -> dialect \in {"postgresql", "mysql"} /\ pk_cols # <<>>

\* lines 505-529: the branches that issue a statement
SetBasedSupported ==
    CASE conf_policy = "error (strict)" -> TRUE
      [] OTHER -> \/ (dialect = "postgresql" /\ pk_cols # <<>>)
                  \/ dialect = "mysql"

\* line 506: dconn.execute(dtbl.insert(), dict_rows), an executemany.
\* The outcomes [exc, d, applied]: exc is "ok" or the exception's type, d the
\* table afterwards, applied the rows a failed run left in the table.
StrictOutcomes(d, failed, rows) ==
    IF failed THEN {[exc |-> "InternalError", d |-> d, applied |-> 0]}
    ELSE LET f == FirstRefused(d, rows, 1)
         IN  IF f = 0
             THEN {[exc |-> "ok", d |-> AppendRows(d, rows, Len(rows)), applied |-> 0]}
             ELSE LET e == RowOutcome(AppendRows(d, rows, f - 1), FALSE, rows[f])
                  IN  {[exc |-> e, d |-> AppendRows(d, rows, n), applied |-> n] :
                          n \in IF dialect = "postgresql" THEN {0} ELSE {0, f - 1}}

\* lines 510-514: one INSERT ... ON CONFLICT DO NOTHING / INSERT IGNORE statement
SkipOutcomes(d, failed, rows) ==
    IF failed THEN {[exc |-> "InternalError", d |-> d, applied |-> 0]}
    ELSE IF AnyBad(rows) THEN {[exc |-> "DataError", d |-> d, applied |-> 0]}
    ELSE {[exc |-> "ok", d |-> IgnoreRows(d, rows, Len(rows)), applied |-> 0]}

\* lines 518-527: one INSERT ... ON CONFLICT DO UPDATE / ON DUPLICATE KEY UPDATE
\* statement.  PostgreSQL refuses a statement that proposes one key twice.
UpsertOutcomes(d, failed, rows) ==
    IF failed THEN {[exc |-> "InternalError", d |-> d, applied |-> 0]}
    ELSE IF AnyBad(rows) THEN {[exc |-> "DataError", d |-> d, applied |-> 0]}
    ELSE IF dialect = "postgresql" /\ SameKeyTwice(rows)
    THEN {[exc |-> "ProgrammingError", d |-> d, applied |-> 0]}
    ELSE {[exc |-> "ok", d |-> UpsertRows(d, rows, Len(rows)), applied |-> 0]}

SetBasedOutcomes ==
    CASE conf_policy = "error (strict)" -> StrictOutcomes(dest, txn_failed, dict_rows)
      [] conf_policy = "skip duplicates" -> SkipOutcomes(dest, txn_failed, dict_rows)
      [] OTHER -> UpsertOutcomes(dest, txn_failed, dict_rows)

-----------------------------------------------------------------------------
(* What the handler shows, lines 560-574 *)

Counters == <<total, inserted, duplicates, rejected>>

\* line 560 and the download of lines 562-570
SuccessReport ==
    [kind |-> "success", exc |-> "", counters |-> Counters, rejects |-> rejected_rows]

\* an error report that carries the counters and the rejects
ErrorReport_WithCounters(e) ==
    [kind |-> "error", exc |-> e, counters |-> Counters, rejects |-> rejected_rows]

\* lines 572-574: st.error("Migration failed.") and st.exception(e)
ErrorReport(e) ==
    [kind |-> "error", exc |-> e, counters |-> <<>>, rejects |-> <<>>]

\* line 452
NoMappingReport ==
    [kind |-> "nomapping", exc |-> "", counters |-> <<>>, rejects |-> <<>>]

NoReport == [kind |-> "none", exc |-> "", counters |-> <<>>, rejects |-> <<>>]

\* a commit at the end of every batch
CommittedAtBatchEnd_PerBatch == dest'

\* line 489: what is committed in the destination when a batch has finished.
\* dst_eng.begin() spans the whole loop: nothing is committed there.
CommittedAtBatchEnd == committed

\* line 489: leaving the with block normally commits the transaction
\* (COMMIT of an aborted PostgreSQL transaction rolls it back)
CommittedAtExit == IF txn_failed THEN committed ELSE dest

-----------------------------------------------------------------------------
(* The Migrate Data handler *)

\* lines 473-474
PkCols == SelectSeq(dst_pk, LAMBDA c : c \in DOMAIN final_mapping)

\* an exception leaves the with block of line 489: the destination
\* transaction is rolled back, and lines 572-574 report it
Raise(e) ==
    /\ pc' = "failed"
    /\ dest' = committed
    /\ report' = ErrorReport(e)
    /\ UNCHANGED committed

\* lines 451-452
MigrateNoMapping ==
    /\ pc = "idle" /\ mode = "db"
    /\ DOMAIN final_mapping = {}
    /\ pc' = "nomapping"
    /\ report' = NoMappingReport
    /\ UNCHANGED <<cfg_vars, norm_vars, two_vars, set_failed, done, pk_cols, pos, dict_rows, fb_i, total, inserted, duplicates,
                   rejected, rejected_rows, dest, committed, txn_failed,
                   src_queries, dst_queries, batches_done, at_boundary, set_applied>>

\* lines 454-491: the SELECT is built, the destination table is reflected and
\* its primary key read, both connections are opened and the SELECT executed
MigrateStart ==
    /\ pc = "idle" /\ mode = "db"
    /\ DOMAIN final_mapping # {}
    /\ SelectUnresolved = {}
    /\ pk_cols' = PkCols
    /\ dst_queries' = dst_queries + 2
    /\ src_queries' = src_queries + 1
    /\ total' = 0 /\ inserted' = 0 /\ duplicates' = 0 /\ rejected' = 0
    /\ rejected_rows' = <<>>
    /\ pc' = "fetch"
    /\ UNCHANGED <<cfg_vars, norm_vars, two_vars, set_failed, done, pos, dict_rows, fb_i, dest, committed, txn_failed,
                   report, batches_done, at_boundary, set_applied>>

\* lines 454-490 when the source refuses the SELECT (line 490 raises): a
\* column the mapping names does not exist, or the source fails
MigrateQueryFails ==
    /\ pc = "idle" /\ mode = "db"
    /\ DOMAIN final_mapping # {}
    /\ \E e \in IF SelectUnresolved # {} THEN {"ProgrammingError"} ELSE {"OperationalError"} :
          Raise(e)
    /\ pk_cols' = PkCols
    /\ dst_queries' = dst_queries + 2
    /\ src_queries' = src_queries + 1
    /\ total' = 0 /\ inserted' = 0 /\ duplicates' = 0 /\ rejected' = 0
    /\ rejected_rows' = <<>>
    /\ UNCHANGED <<cfg_vars, norm_vars, two_vars, set_failed, done, pos, dict_rows, fb_i, txn_failed, batches_done,
                   at_boundary, set_applied>>

Min(a, b) == IF a < b THEN a ELSE b

\* a fetch that delivers one row more than asked for
FetchMany_OneMore(n) ==
    [i \in 1..Min(n + 1, Len(src_rows) - pos) |->
        [id |-> pos + i, k |-> src_rows[pos + i].k, bad |-> src_rows[pos + i].bad]]

\* line 493: result.fetchmany(int(chunk_size)) on the streaming cursor
FetchMany(n) ==
    [i \in 1..Min(n, Len(src_rows) - pos) |->
        [id |-> pos + i, k |-> src_rows[pos + i].k, bad |-> src_rows[pos + i].bad]]

\* lines 493-500: a batch is fetched, counted and normalized
Fetch ==
    /\ pc = "fetch"
    /\ FetchMany(chunk_size) # <<>>
    /\ dict_rows' = FetchMany(chunk_size)
    /\ pos' = pos + Len(dict_rows')
    /\ total' = total + Len(dict_rows')
    /\ at_boundary' = <<inserted, duplicates, rejected, dest>>
    /\ set_applied' = 0
    /\ pc' = "set_based"
    /\ UNCHANGED <<cfg_vars, norm_vars, two_vars, set_failed, done, pk_cols, fb_i, inserted, duplicates, rejected, rejected_rows,
                   dest, committed, txn_failed, report, src_queries, dst_queries,
                   batches_done>>

\* lines 493-495 and 560: the fetch is empty, the loop ends, the with block
\* is left (commit) and the counters are shown
FetchEnd ==
    /\ pc = "fetch"
    /\ FetchMany(chunk_size) = <<>>
    /\ committed' = CommittedAtExit
    /\ dest' = committed'
    /\ report' = SuccessReport
    /\ pc' = "done"
    /\ UNCHANGED <<cfg_vars, norm_vars, two_vars, set_failed, done, pk_cols, pos, dict_rows, fb_i, total, inserted, duplicates,
                   rejected, rejected_rows, txn_failed, src_queries, dst_queries,
                   batches_done, at_boundary, set_applied>>

\* line 493 raises: the source fails while the cursor is read
FetchFails ==
    /\ pc = "fetch"
    /\ at_boundary' = <<inserted, duplicates, rejected, dest>>
    /\ Raise("OperationalError")
    /\ UNCHANGED <<cfg_vars, norm_vars, two_vars, set_failed, done, pk_cols, pos, dict_rows, fb_i, total, inserted, duplicates,
                   rejected, rejected_rows, txn_failed, src_queries, dst_queries,
                   batches_done, set_applied>>

\* the loop body ends: the next iteration fetches
FinishBatch ==
    /\ pc' = "fetch"
    /\ batches_done' = batches_done + 1
    /\ committed' = CommittedAtBatchEnd

\* lines 505-507, 510-511, 513-514, 519-522, 524-527: the set-based write succeeds
SetBasedOk ==
    /\ pc = "set_based"
    /\ SetBasedSupported
    /\ \E o \in SetBasedOutcomes :
          /\ o.exc = "ok"
          /\ dest' = o.d
    /\ inserted' = inserted + Len(dict_rows)
    /\ FinishBatch
    /\ UNCHANGED <<cfg_vars, norm_vars, two_vars, set_failed, done, pk_cols, pos, dict_rows, fb_i, total, duplicates, rejected,
                   rejected_rows, txn_failed, report, src_queries, dst_queries,
                   at_boundary, set_applied>>

\* the row-by-row loop of line 540 starts
EnterFallback ==
    /\ pc' = "fallback"
    /\ fb_i' = 1

\* lines 515-516 and 528-529: no set-based write for this backend
SetBasedUnsupported ==
    /\ pc = "set_based"
    /\ ~SetBasedSupported
    /\ EnterFallback
    /\ UNCHANGED <<cfg_vars, norm_vars, two_vars, set_failed, done, pk_cols, pos, dict_rows, total, inserted, duplicates, rejected,
                   rejected_rows, dest, committed, txn_failed, report, src_queries,
                   dst_queries, batches_done, at_boundary, set_applied>>

\* an IntegrityError of the set-based write is re-raised unless
\* continue_on_error is set
SetBasedIntegrityError_RaiseUnlessContinue ==
    /\ pc = "set_based"
    /\ SetBasedSupported
    /\ \E o \in SetBasedOutcomes :
          /\ o.exc = "IntegrityError"
          /\ set_applied' = o.applied
          /\ IF continue_on_error
             THEN dest' = o.d /\ EnterFallback /\ UNCHANGED <<committed, report>>
             ELSE Raise(o.exc) /\ UNCHANGED fb_i
    /\ set_failed' = TRUE
    /\ txn_failed' = FailedAfterError(txn_failed)
    /\ UNCHANGED <<cfg_vars, norm_vars, two_vars, done, pk_cols, pos, dict_rows, total, inserted, duplicates, rejected,
                   rejected_rows, src_queries, dst_queries,
                   batches_done, at_boundary>>

\* lines 530-531: the set-based write raises IntegrityError
SetBasedIntegrityError ==
    /\ pc = "set_based"
    /\ SetBasedSupported
    /\ \E o \in SetBasedOutcomes :
          /\ o.exc = "IntegrityError"
          /\ dest' = o.d
          /\ set_applied' = o.applied
    /\ set_failed' = TRUE
    /\ txn_failed' = FailedAfterError(txn_failed)
    /\ EnterFallback
    /\ UNCHANGED <<cfg_vars, norm_vars, two_vars, done, pk_cols, pos, dict_rows, total, inserted, duplicates, rejected,
                   rejected_rows, committed, report, src_queries, dst_queries,
                   batches_done, at_boundary>>

\* lines 532-534: the set-based write raises another exception, continue_on_error
SetBasedErrorContinue ==
    /\ pc = "set_based"
    /\ SetBasedSupported
    /\ continue_on_error
    /\ \E o \in SetBasedOutcomes :
          /\ o.exc \notin {"ok", "IntegrityError"}
          /\ dest' = o.d
          /\ set_applied' = o.applied
    /\ set_failed' = TRUE
    /\ txn_failed' = FailedAfterError(txn_failed)
    /\ EnterFallback
    /\ UNCHANGED <<cfg_vars, norm_vars, two_vars, done, pk_cols, pos, dict_rows, total, inserted, duplicates, rejected,
                   rejected_rows, committed, report, src_queries, dst_queries,
                   batches_done, at_boundary>>

\* the set-based write raises another exception, which is re-raised whatever
\* continue_on_error is
SetBasedErrorRaise_Always ==
    /\ pc = "set_based"
    /\ SetBasedSupported
    /\ \E o \in SetBasedOutcomes :
          /\ o.exc \notin {"ok", "IntegrityError"}
          /\ set_applied' = o.applied
          /\ Raise(o.exc)
    /\ set_failed' = TRUE
    /\ txn_failed' = FailedAfterError(txn_failed)
    /\ UNCHANGED <<cfg_vars, norm_vars, two_vars, done, pk_cols, pos, dict_rows, fb_i, total, inserted, duplicates,
                   rejected, rejected_rows, src_queries, dst_queries, batches_done,
                   at_boundary>>

\* lines 532-536: the set-based write raises another exception, which is re-raised
SetBasedErrorRaise ==
    /\ pc = "set_based"
    /\ SetBasedSupported
    /\ ~continue_on_error
    /\ \E o \in SetBasedOutcomes :
          /\ o.exc \notin {"ok", "IntegrityError"}
          /\ set_applied' = o.applied
          /\ Raise(o.exc)
    /\ set_failed' = TRUE
    /\ txn_failed' = FailedAfterError(txn_failed)
    /\ UNCHANGED <<cfg_vars, norm_vars, two_vars, done, pk_cols, pos, dict_rows, fb_i, total, inserted, duplicates,
                   rejected, rejected_rows, src_queries, dst_queries, batches_done,
                   at_boundary>>

-----------------------------------------------------------------------------
(* Row-by-row fallback, lines 539-558 *)

FallbackRowNow == dict_rows[fb_i]

FallbackOutcome == RowOutcome(dest, txn_failed, FallbackRowNow)

\* line 540: the loop goes to the next row, or the batch is finished
NextRow ==
    IF fb_i < Len(dict_rows)
    THEN /\ fb_i' = fb_i + 1
         /\ UNCHANGED <<pc, batches_done, committed>>
    ELSE /\ fb_i' = fb_i
         /\ FinishBatch

\* lines 549 and 555: the reject entry of a row
RejectEntry(row, reason) == [row |-> row, reason |-> reason]

\* line 555: f"{type(e).__name__}: {e}"
OtherReason(e) ==
    CASE e = "DataError" -> "DataError: invalid input value"
      [] e = "InternalError" -> "InternalError: current transaction is aborted"
      [] OTHER -> e

\* lines 542-543
FallbackInserted ==
    /\ pc = "fallback"
    /\ FallbackOutcome = "ok"
    /\ dest' = Append(dest, DestRow(FallbackRowNow))
    /\ inserted' = inserted + 1
    /\ NextRow
    /\ UNCHANGED <<cfg_vars, norm_vars, two_vars, set_failed, done, pk_cols, pos, dict_rows, total, duplicates, rejected,
                   rejected_rows, txn_failed, report, src_queries, dst_queries,
                   at_boundary, set_applied>>

\* lines 544-547 without the count of line 546
FallbackDuplicate_Uncounted ==
    /\ pc = "fallback"
    /\ FallbackOutcome = "IntegrityError"
    /\ conf_policy \in {"skip duplicates", "upsert/update (PG/MySQL)"}
    /\ duplicates' = duplicates
    /\ txn_failed' = FailedAfterError(txn_failed)
    /\ dest' = dest
    /\ NextRow
    /\ UNCHANGED <<cfg_vars, norm_vars, two_vars, set_failed, done, pk_cols, pos, dict_rows, total,
                   inserted, rejected, rejected_rows, report, src_queries, dst_queries,
                   at_boundary, set_applied>>

\* lines 544-547
FallbackDuplicate ==
    /\ pc = "fallback"
    /\ FallbackOutcome = "IntegrityError"
    /\ conf_policy \in {"skip duplicates", "upsert/update (PG/MySQL)"}
    /\ duplicates' = duplicates + 1
    /\ txn_failed' = FailedAfterError(txn_failed)
    /\ dest' = dest
    /\ NextRow
    /\ UNCHANGED <<cfg_vars, norm_vars, two_vars, set_failed, done, pk_cols, pos, dict_rows, total, inserted, rejected,
                   rejected_rows, report, src_queries, dst_queries,
                   at_boundary, set_applied>>

\* the conflict is rejected with the reason "conflict"
FallbackConflictRejected_ReasonConflict ==
    /\ pc = "fallback"
    /\ FallbackOutcome = "IntegrityError"
    /\ conf_policy = "error (strict)"
    /\ continue_on_error
    /\ rejected_rows' = Append(rejected_rows, RejectEntry(FallbackRowNow, "conflict"))
    /\ rejected' = rejected + 1
    /\ txn_failed' = FailedAfterError(txn_failed)
    /\ dest' = dest
    /\ NextRow
    /\ UNCHANGED <<cfg_vars, norm_vars, two_vars, set_failed, done, pk_cols, pos, dict_rows, total, inserted, duplicates,
                   report, src_queries, dst_queries, at_boundary, set_applied>>

\* lines 548-551
FallbackConflictRejected ==
    /\ pc = "fallback"
    /\ FallbackOutcome = "IntegrityError"
    /\ conf_policy = "error (strict)"
    /\ continue_on_error
    /\ rejected_rows' = Append(rejected_rows, RejectEntry(FallbackRowNow, "IntegrityError"))
    /\ rejected' = rejected + 1
    /\ txn_failed' = FailedAfterError(txn_failed)
    /\ dest' = dest
    /\ NextRow
    /\ UNCHANGED <<cfg_vars, norm_vars, two_vars, set_failed, done, pk_cols, pos, dict_rows, total, inserted, duplicates,
                   report, src_queries, dst_queries, at_boundary, set_applied>>

\* line 552
FallbackConflictRaise ==
    /\ pc = "fallback"
    /\ FallbackOutcome = "IntegrityError"
    /\ conf_policy = "error (strict)"
    /\ ~continue_on_error
    /\ Raise("IntegrityError")
    /\ txn_failed' = FailedAfterError(txn_failed)
    /\ UNCHANGED <<cfg_vars, norm_vars, two_vars, set_failed, done, pk_cols, pos, dict_rows, fb_i, total, inserted, duplicates,
                   rejected, rejected_rows, src_queries, dst_queries, batches_done,
                   at_boundary, set_applied>>

\* the row is put on the reject list without being counted
FallbackErrorRejected_Uncounted ==
    /\ pc = "fallback"
    /\ FallbackOutcome \notin {"ok", "IntegrityError"}
    /\ continue_on_error
    /\ rejected_rows' = Append(rejected_rows,
                               RejectEntry(FallbackRowNow, OtherReason(FallbackOutcome)))
    /\ rejected' = rejected
    /\ txn_failed' = FailedAfterError(txn_failed)
    /\ dest' = dest
    /\ NextRow
    /\ UNCHANGED <<cfg_vars, norm_vars, two_vars, set_failed, done, pk_cols, pos, dict_rows, total, inserted, duplicates,
                   report, src_queries, dst_queries, at_boundary, set_applied>>

\* lines 553-557
FallbackErrorRejected ==
    /\ pc = "fallback"
    /\ FallbackOutcome \notin {"ok", "IntegrityError"}
    /\ continue_on_error
    /\ rejected_rows' = Append(rejected_rows,
                               RejectEntry(FallbackRowNow, OtherReason(FallbackOutcome)))
    /\ rejected' = rejected + 1
    /\ txn_failed' = FailedAfterError(txn_failed)
    /\ dest' = dest
    /\ NextRow
    /\ UNCHANGED <<cfg_vars, norm_vars, two_vars, set_failed, done, pk_cols, pos, dict_rows, total, inserted, duplicates,
                   report, src_queries, dst_queries, at_boundary, set_applied>>

\* line 558
FallbackErrorRaise ==
    /\ pc = "fallback"
    /\ FallbackOutcome \notin {"ok", "IntegrityError"}
    /\ ~continue_on_error
    /\ Raise(FallbackOutcome)
    /\ txn_failed' = FailedAfterError(txn_failed)
    /\ UNCHANGED <<cfg_vars, norm_vars, two_vars, set_failed, done, pk_cols, pos, dict_rows, fb_i, total, inserted, duplicates,
                   rejected, rejected_rows, src_queries, dst_queries, batches_done,
                   at_boundary, set_applied>>

-----------------------------------------------------------------------------
(* The Load File -> DB handler, lines 753-788 *)

\* lines 654-661 of build_df_for_insert: the expression names a file column
IsFileColumnRef(expr) ==
    /\ Upper(expr) # <<"N", "U", "L", "L">>
    /\ ~(Len(expr) >= 2 /\ expr[1] = "'" /\ expr[Len(expr)] = "'")

\* build_df_for_insert without the check of lines 659-660
FileMissing_Unchecked == {}

\* lines 659-660: the columns build_df_for_insert does not find in the file
FileMissing ==
    {d \in DOMAIN final_mapping :
        IsFileColumnRef(final_mapping[d]) /\ final_mapping[d] \notin SrcCols}

\* line 759: len(insert_df); a frame built from constants alone has no rows
InsertDfLen ==
    IF \E d \in DOMAIN final_mapping : IsFileColumnRef(final_mapping[d])
    THEN Len(src_rows) ELSE 0

\* line 767: insert_df.iloc[start:end]
Chunk(start, end) ==
    [i \in 1..(end - start) |->
        [id |-> start + i, k |-> src_rows[start + i].k, bad |-> src_rows[start + i].bad]]

\* lines 755-756
LoadNoMapping ==
    /\ pc = "idle" /\ mode = "file"
    /\ DOMAIN final_mapping = {}
    /\ pc' = "nomapping"
    /\ report' = NoMappingReport
    /\ UNCHANGED <<cfg_vars, norm_vars, two_vars, set_failed, done, pk_cols, pos, dict_rows, fb_i, total, inserted,
                   duplicates, rejected, rejected_rows, dest, committed, txn_failed,
                   src_queries, dst_queries, batches_done, at_boundary, set_applied>>

\* lines 758 and 659-660, 786-788: build_df_for_insert raises ValueError
LoadMissingColumn ==
    /\ pc = "idle" /\ mode = "file"
    /\ DOMAIN final_mapping # {}
    /\ FileMissing # {}
    /\ pc' = "failed"
    /\ report' = ErrorReport("ValueError")
    /\ UNCHANGED <<cfg_vars, norm_vars, two_vars, set_failed, done, pk_cols, pos, dict_rows, fb_i, total, inserted,
                   duplicates, rejected, rejected_rows, dest, committed, txn_failed,
                   src_queries, dst_queries, batches_done, at_boundary, set_applied>>

\* lines 758-764: the frame is built; with no rows there is nothing to insert
LoadStart ==
    /\ pc = "idle" /\ mode = "file"
    /\ DOMAIN final_mapping # {}
    /\ FileMissing = {}
    /\ total' = InsertDfLen
    /\ done' = 0
    /\ IF total' = 0
       THEN /\ pc' = "nothing"
            /\ report' = [kind |-> "nothing", exc |-> "", counters |-> <<>>, rejects |-> <<>>]
       ELSE /\ pc' = "file_loop"
            /\ UNCHANGED report
    /\ UNCHANGED <<cfg_vars, norm_vars, two_vars, set_failed, pk_cols, pos, dict_rows, fb_i, inserted,
                   duplicates, rejected, rejected_rows, dest, committed, txn_failed,
                   src_queries, dst_queries, batches_done, at_boundary, set_applied>>

\* lines 765-782: one chunk is normalized and appended by to_sql, which
\* commits it
FileChunkOk ==
    /\ pc = "file_loop"
    /\ done < total
    /\ LET end == Min(done + chunk_size, total)
       IN  /\ dict_rows' = Chunk(done, end)
           /\ FirstRefused(committed, dict_rows', 1) = 0
           /\ committed' = AppendRows(committed, dict_rows', Len(dict_rows'))
           /\ dest' = committed'
           /\ done' = end
    /\ dst_queries' = dst_queries + 1
    /\ batches_done' = batches_done + 1
    /\ UNCHANGED <<cfg_vars, norm_vars, two_vars, set_failed, pk_cols, pc, pos, fb_i, total, inserted,
                   duplicates, rejected, rejected_rows, txn_failed, report,
                   src_queries, at_boundary, set_applied>>

\* the rows of the chunk before the refused one stay in the destination
FileChunkFails_KeepsPrefix ==
    /\ pc = "file_loop"
    /\ done < total
    /\ LET end == Min(done + chunk_size, total)
           f == FirstRefused(committed, Chunk(done, end), 1)
       IN  /\ dict_rows' = Chunk(done, end)
           /\ \E e \in IF f = 0 THEN {"OperationalError"}
                       ELSE {RowOutcome(AppendRows(committed, dict_rows', f - 1),
                                        FALSE, dict_rows'[f])} :
                 report' = ErrorReport(e)
           /\ committed' = IF f = 0 THEN committed
                           ELSE AppendRows(committed, dict_rows', f - 1)
           /\ dest' = committed'
    /\ pc' = "failed"
    /\ dst_queries' = dst_queries + 1
    /\ UNCHANGED <<cfg_vars, norm_vars, two_vars, set_failed, done, pk_cols, pos, fb_i, total, inserted,
                   duplicates, rejected, rejected_rows, txn_failed,
                   src_queries, batches_done, at_boundary, set_applied>>

\* lines 772-779 raise, lines 786-788: to_sql rolls the chunk back
FileChunkFails ==
    /\ pc = "file_loop"
    /\ done < total
    /\ LET end == Min(done + chunk_size, total)
           f == FirstRefused(committed, Chunk(done, end), 1)
       IN  /\ dict_rows' = Chunk(done, end)
           /\ \E e \in IF f = 0 THEN {"OperationalError"}
                       ELSE {RowOutcome(AppendRows(committed, dict_rows', f - 1),
                                        FALSE, dict_rows'[f])} :
                 report' = ErrorReport(e)
    /\ pc' = "failed"
    /\ dst_queries' = dst_queries + 1
    /\ UNCHANGED <<cfg_vars, norm_vars, two_vars, set_failed, done, pk_cols, pos, fb_i, total, inserted,
                   duplicates, rejected, rejected_rows, dest, committed, txn_failed,
                   src_queries, batches_done, at_boundary, set_applied>>

\* lines 784-785
FileFinish ==
    /\ pc = "file_loop"
    /\ done >= total
    /\ pc' = "done"
    /\ report' = [kind |-> "success", exc |-> "", counters |-> <<total>>, rejects |-> <<>>]
    /\ UNCHANGED <<cfg_vars, norm_vars, two_vars, set_failed, done, pk_cols, pos, dict_rows, fb_i, total, inserted,
                   duplicates, rejected, rejected_rows, dest, committed, txn_failed,
                   src_queries, dst_queries, batches_done, at_boundary, set_applied>>

-----------------------------------------------------------------------------
(* normalize_rows_for_dest, lines 324-429 *)

UpperLetters ==
    <<"A", "B", "C", "D", "E", "F", "G", "H", "I", "J", "K", "L", "M",
      "N", "O", "P", "Q", "R", "S", "T", "U", "V", "W", "X", "Y", "Z">>

LowerLetters ==
    <<"a", "b", "c", "d", "e", "f", "g", "h", "i", "j", "k", "l", "m",
      "n", "o", "p", "q", "r", "s", "t", "u", "v", "w", "x", "y", "z">>

LowerChar(c) ==
    IF \E i \in DOMAIN UpperLetters : UpperLetters[i] = c
    THEN LowerLetters[CHOOSE i \in DOMAIN UpperLetters : UpperLetters[i] = c]
    ELSE c

\* str.lower()
Lower(s) == [i \in 1..Len(s) |-> LowerChar(s[i])]

\* str.strip()
Strip(s) ==
    LET keep == {i \in 1..Len(s) : s[i] # " "}
    IN  IF keep = {} THEN <<>>
        ELSE SubSeq(s, CHOOSE i \in keep : \A j \in keep : i <= j,
                       CHOOSE i \in keep : \A j \in keep : j <= i)

\* str.lstrip("+-")
LStripSign(s) ==
    LET keep == {i \in 1..Len(s) : s[i] \notin {"+", "-"}}
    IN  IF keep = {} THEN <<>>
        ELSE SubSeq(s, CHOOSE i \in keep : \A j \in keep : i <= j, Len(s))

DigitChars == {"0", "1", "2", "3", "4", "5", "6", "7", "8", "9"}

\* str.isdigit()
IsDigit(s) == s # <<>> /\ \A i \in 1..Len(s) : s[i] \in DigitChars

\* str.replace(c, "")
RECURSIVE Without(_, _)
Without(s, c) ==
    IF s = <<>> THEN <<>>
    ELSE IF s[1] = c THEN Without(Tail(s), c)
    ELSE <<s[1]>> \o Without(Tail(s), c)

(***************************************************************************)
(* Python values: the type's name and str(x), a sequence of characters.    *)
(***************************************************************************)
PyNone == [t |-> "NoneType", v |-> <<"N", "o", "n", "e">>]

PyNaN == [t |-> "float", v |-> <<"n", "a", "n">>]

PyTrue == [t |-> "bool", v |-> <<"T", "r", "u", "e">>]

PyFalse == [t |-> "bool", v |-> <<"F", "a", "l", "s", "e">>]

PyInt(digits) == [t |-> "int", v |-> digits]

PyFloat(text) == [t |-> "float", v |-> text]

PyStr(chars) == [t |-> "str", v |-> chars]

\* a list of two elements, [1, 2]
PyList == [t |-> "list", v |-> <<"[", "1", ",", " ", "2", "]">>]

\* what pandas made of a text it parsed as a date or time
PyDatetime(kind, text) == [t |-> kind, v |-> text]

\* str(x)
Str(x) == x.v

\* the values a source column delivers
Values ==
    {PyNone, PyTrue, PyInt(<<"1">>), PyInt(<<"5">>),
     PyStr(<<>>), PyStr(<<"Y", "e", "s">>), PyStr(<<" ", "7", " ">>),
     PyStr(<<"x", " ">>), PyList}

MaxCol == 2

Columns == UNION {[1..n -> Values] : n \in 1..MaxCol}

\* the branches of lines 349-427; "opaque" is the final else
TypeClasses ==
    {"bool", "int", "numeric", "timestamp", "date", "time", "uuid", "json",
     "text", "opaque"}

\* line 341: the dtype pd.DataFrame(dict_rows) gives the column
Dtype(col) ==
    LET ts == {col[i].t : i \in 1..Len(col)}
    IN  IF ts = {"bool"} THEN "bool"
        ELSE IF ts = {"int"} THEN "int64"
        ELSE IF ts \subseteq {"int", "float", "NoneType"} /\ ts # {"NoneType"}
        THEN "float64"
        ELSE "object"

\* line 341: the cell of the frame; in a float64 column an int is a float
\* and None is NaN
FrameCell(col, i) ==
    IF Dtype(col) = "float64"
    THEN IF col[i].t = "int" THEN PyFloat(col[i].v \o <<".", "0">>)
         ELSE IF col[i].t = "NoneType" THEN PyNaN
         ELSE col[i]
    ELSE col[i]

\* pd.isna(x) of a scalar
IsNa(x) == x = PyNone \/ x = PyNaN

\* a cell's outcome: the value, or the exception the cell's function raises
Val(x) == [exc |-> "ok", val |-> x]

Exc(e) == [exc |-> e, val |-> PyNone]

\* an invalid value becomes None whatever the checkbox says
Invalid_AlwaysNull(coerce, x) == Val(PyNone)

\* `None if coerce_invalid_to_null else x`
Invalid(coerce, x) == IF coerce THEN Val(PyNone) ELSE Val(x)

\* lines 338-339
truthy ==
    {<<"t", "r", "u", "e">>, <<"t">>, <<"y", "e", "s">>, <<"y">>, <<"1">>, <<"o", "n">>}

falsy ==
    {<<"f", "a", "l", "s", "e">>, <<"f">>, <<"n", "o">>, <<"n">>, <<"0">>, <<"o", "f", "f">>}

\* line 356, the lambda: a string that is neither truthy nor falsy is kept
\* (stripped and lowered) when invalid values are not coerced
BoolMapped(coerce, v) ==
    IF v \in truthy THEN Val(PyTrue)
    ELSE IF v \in falsy THEN Val(PyFalse)
    ELSE Invalid(coerce, PyStr(v))

\* lines 350-357, one cell of the boolean branch before astype("boolean")
ToBool(coerce, col, i) ==
    IF Dtype(col) = "bool" THEN Val(col[i])
    ELSE IF Dtype(col) = "int64"
    THEN IF col[i].v = <<"1">> THEN Val(PyTrue)
         ELSE IF col[i].v = <<"0">> THEN Val(PyFalse)
         ELSE Val(PyNone)
    ELSE BoolMapped(coerce, Lower(Strip(Str(FrameCell(col, i)))))

\* int(xs) as text: no plus sign, no leading zeros
RECURSIVE LStripZeros(_)
LStripZeros(s) ==
    IF Len(s) > 1 /\ s[1] = "0" THEN LStripZeros(Tail(s)) ELSE s

IntText(xs) ==
    LET mag == LStripZeros(LStripSign(xs))
    IN  IF xs[1] = "-" /\ mag # <<"0">> THEN <<"-">> \o mag ELSE mag

\* lines 361-369
ToInt(coerce, x) ==
    IF x.t = "list" THEN Exc("ValueError")
    ELSE IF IsNa(x) THEN Val(PyNone)
    ELSE IF x.t = "int" THEN Val(x)
    ELSE IF x.t = "bool" THEN Val(PyInt(IF x = PyTrue THEN <<"1">> ELSE <<"0">>))
    ELSE LET xs == Strip(Str(x))
         IN  IF xs = <<>> THEN Invalid(coerce, x)
             ELSE IF IsDigit(LStripSign(xs))
             THEN IF Len(xs) - Len(LStripSign(xs)) <= 1
                  THEN Val(PyInt(IntText(xs)))
                  ELSE Invalid(coerce, x)
             ELSE Invalid(coerce, x)

\* the texts float() and json.loads() read as a number, of the forms
\* digits and digits.digits with an optional sign
IsNumberText(s, signs) ==
    LET body == IF s # <<>> /\ s[1] \in signs THEN Tail(s) ELSE s
        dots == {i \in 1..Len(body) : body[i] = "."}
    IN  \/ IsDigit(body)
        \/ /\ Cardinality(dots) = 1
           /\ \E i \in dots : /\ IsDigit(SubSeq(body, 1, i - 1))
                              /\ IsDigit(SubSeq(body, i + 1, Len(body)))

HasDot(s) == \E i \in 1..Len(s) : s[i] = "."

\* str(float(s))
FloatText(s) ==
    LET t == IF s[1] = "+" THEN Tail(s) ELSE s
    IN  IF HasDot(t) THEN t ELSE IntText(t) \o <<".", "0">>

\* lines 374-380
ToFloat(coerce, x) ==
    IF x.t = "list" THEN Exc("ValueError")
    ELSE IF IsNa(x) THEN Val(PyNone)
    ELSE IF x.t = "int" THEN Val(PyFloat(x.v \o <<".", "0">>))
    ELSE IF x.t = "float" THEN Val(x)
    ELSE IF x.t = "bool" THEN Val(PyFloat(IF x = PyTrue THEN <<"1", ".", "0">>
                                                       ELSE <<"0", ".", "0">>))
    ELSE LET xs == Strip(Str(x))
             f == Without(xs, ",")
         IN  IF xs = <<>> THEN Invalid(coerce, x)
             ELSE IF IsNumberText(f, {"+", "-"}) THEN Val(PyFloat(FloatText(f)))
             ELSE Invalid(coerce, x)

IsLetters(s) ==
    s # <<>> /\ \A i \in 1..Len(s) :
                   \E j \in DOMAIN LowerLetters : LowerChar(s[i]) = LowerLetters[j]

\* lines 385-392: pd.to_datetime(s, errors="coerce"), then NaT becomes None.
\* Null, an empty text and a word do not parse; for the other values both
\* results are allowed here, and a list may also be refused.
ToDatetime(kind, x) ==
    IF IsNa(x) THEN {Val(PyNone)}
    ELSE IF x.t = "str" /\ (Strip(Str(x)) = <<>> \/ IsLetters(Strip(Str(x))))
    THEN {Val(PyNone)}
    ELSE IF x.t = "list" THEN {Val(PyNone), Exc("TypeError")}
    ELSE {Val(PyNone), Val(PyDatetime(kind, Str(x)))}

HexChars == DigitChars \cup {"a", "b", "c", "d", "e", "f"}

UuidHexLen == 32

\* uuid.UUID(text): 32 hexadecimal digits once the hyphens are removed
IsUuidText(s) ==
    LET h == Lower(Without(s, "-"))
    IN  Len(h) = UuidHexLen /\ \A i \in 1..Len(h) : h[i] \in HexChars

\* str(uuid.UUID(text)): lower case, hyphens after 8, 12, 16 and 20 digits
UuidText(s) ==
    LET h == Lower(Without(s, "-"))
    IN  SubSeq(h, 1, 8) \o <<"-">> \o SubSeq(h, 9, 12) \o <<"-">> \o
        SubSeq(h, 13, 16) \o <<"-">> \o SubSeq(h, 17, 20) \o <<"-">> \o
        SubSeq(h, 21, UuidHexLen)

\* lines 396-401
ToUuid(coerce, x) ==
    IF x.t = "list" THEN Exc("ValueError")
    ELSE IF IsNa(x) \/ Strip(Str(x)) = <<>> THEN Val(PyNone)
    ELSE IF IsUuidText(Str(x)) THEN Val(PyStr(UuidText(Str(x))))
    ELSE Invalid(coerce, x)

\* json.loads(xs) of a number or of true, false, null; other texts of the
\* values used here are not JSON
JsonLoads(xs) ==
    IF xs = <<"t", "r", "u", "e">> THEN Val(PyTrue)
    ELSE IF xs = <<"f", "a", "l", "s", "e">> THEN Val(PyFalse)
    ELSE IF xs = <<"n", "u", "l", "l">> THEN Val(PyNone)
    ELSE IF IsNumberText(xs, {"-"}) /\ LStripZeros(LStripSign(xs)) = LStripSign(xs)
    THEN IF HasDot(xs) THEN Val(PyFloat(xs)) ELSE Val(PyInt(xs))
    ELSE Exc("JSONDecodeError")

\* lines 406-414
ToJson(coerce, x) ==
    IF x.t = "list" THEN Exc("ValueError")
    ELSE IF IsNa(x) THEN Val(PyNone)
    ELSE LET xs == Strip(Str(x))
         IN  IF xs = <<>> THEN Val(PyNone)
             ELSE IF JsonLoads(xs).exc = "ok" THEN JsonLoads(xs)
             ELSE IF ~coerce THEN Val(PyStr(xs))
             ELSE Val(PyNone)

\* lines 419-424
ToStr(coerce, x) ==
    IF x.t = "list" THEN Exc("ValueError")
    ELSE IF IsNa(x) THEN Val(PyNone)
    ELSE Val(PyStr(Str(x)))

\* lines 344-427: the outcomes of one cell under the branch the type selects
CellOutcomes(type, coerce, col, i) ==
    LET x == FrameCell(col, i)
    IN  CASE type = "bool" -> {ToBool(coerce, col, i)}
          [] type = "int" -> {ToInt(coerce, x)}
          [] type = "numeric" -> {ToFloat(coerce, x)}
          [] type \in {"timestamp", "date", "time"} -> ToDatetime(type, x)
          [] type = "uuid" -> {ToUuid(coerce, x)}
          [] type = "json" -> {ToJson(coerce, x)}
          [] type = "text" -> {ToStr(coerce, x)}
          [] OTHER -> {Val(x)}

\* line 429: df.where(pd.notnull(df), None)
NotNullOrNone(x) == IF IsNa(x) THEN PyNone ELSE x

\* the column a choice of cell outcomes gives, or the exception raised:
\* the first a cell raises, or the TypeError of astype("boolean"), line 357,
\* on a column that kept a string
ColumnOutcome(type, f) ==
    LET raised == {i \in DOMAIN f : f[i].exc # "ok"}
    IN  IF raised # {}
        THEN [exc |-> f[CHOOSE i \in raised : \A j \in raised : i <= j].exc, out |-> <<>>]
        ELSE IF type = "bool" /\ \E i \in DOMAIN f : f[i].val.t = "str"
        THEN [exc |-> "TypeError", out |-> <<>>]
        ELSE [exc |-> "ok", out |-> [i \in DOMAIN f |-> NotNullOrNone(f[i].val)]]

\* normalize_rows_for_dest on one column: the set of its possible outcomes
normalize_rows_for_dest(type, coerce, col) ==
    LET cells == UNION {CellOutcomes(type, coerce, col, i) : i \in 1..Len(col)}
    IN  {ColumnOutcome(type, f) :
            f \in {g \in [1..Len(col) -> cells] :
                      \A i \in 1..Len(col) : g[i] \in CellOutcomes(type, coerce, col, i)}}

\* lines 498-500: the batch is in dict_rows and line 500 is about to run
\* normalize_rows_for_dest; it returns, and the write of line 503 is next
NormalizeOk ==
    /\ pc = "normalize"
    /\ \E o \in normalize_rows_for_dest(val_type, coerce_invalid, val_col) :
          /\ o.exc = "ok"
          /\ val_norm' = o.out
    /\ pc' = "set_based"
    /\ UNCHANGED <<cfg_vars, coerce_invalid, val_type, val_col, two_vars, set_failed, done,
                   pk_cols, pos, dict_rows, fb_i, total, inserted, duplicates,
                   rejected, rejected_rows, dest, committed, txn_failed, report,
                   src_queries, dst_queries, batches_done, at_boundary, set_applied>>

\* line 500 raises: the exception leaves the with block and is reported
NormalizeRaises ==
    /\ pc = "normalize"
    /\ \E o \in normalize_rows_for_dest(val_type, coerce_invalid, val_col) :
          /\ o.exc # "ok"
          /\ Raise(o.exc)
    /\ UNCHANGED <<cfg_vars, norm_vars, two_vars, set_failed, done,
                   pk_cols, pos, dict_rows, fb_i, total, inserted, duplicates,
                   rejected, rejected_rows, txn_failed,
                   src_queries, dst_queries, batches_done, at_boundary, set_applied>>

-----------------------------------------------------------------------------
(* Initial states *)

Mapping(id, val) == [c \in DestCols |-> IF c = "id" THEN id ELSE val]

\* line 284: same-name columns mapped
AutoMap == Mapping(E_id, E_val)

MappingChoices ==
    {AutoMap, Mapping(E_id, E_null), Mapping(E_id, E_lit),
     Mapping(E_id, E_nosuch), Mapping(E_nosuch, E_empty), Mapping(E_id, E_empty),
     Mapping(E_null, E_lit), Mapping(E_empty, E_empty)}

\* the destination table before the run: its primary key, whether its key
\* is unique (a primary key is; so is a key under a unique constraint of a
\* table without primary key), and its rows
InitialTables ==
    {<<pk, uq, rows>> \in {<<>>, <<"id">>} \X BOOLEAN \X {<<>>, <<[k |-> 1, id |-> 0]>>} :
        /\ pk # <<>> => uq
        /\ pk = <<>> => (uq <=> rows # <<>>)}

NoPrev ==
    [counters |-> <<>>, committed |-> <<>>, chunk_size |-> 0, set_failed |-> FALSE]

InitRun ==
    /\ pk_cols = <<>>
    /\ pc = "idle"
    /\ pos = 0
    /\ dict_rows = <<>>
    /\ fb_i = 0
    /\ total = 0 /\ inserted = 0 /\ duplicates = 0 /\ rejected = 0
    /\ rejected_rows = <<>>
    /\ dest = dest0
    /\ committed = dest0
    /\ txn_failed = FALSE
    /\ report = NoReport
    /\ src_queries = 0
    /\ dst_queries = 0
    /\ batches_done = 0
    /\ at_boundary = <<0, 0, 0, dest0>>
    /\ set_applied = 0
    /\ set_failed = FALSE
    /\ done = 0
    /\ run_no = 1
    /\ prev = NoPrev

\* no column is being normalized
NormIdle ==
    /\ coerce_invalid = TRUE
    /\ val_type = "opaque"
    /\ val_col = <<>>
    /\ val_norm = <<>>

\* the DB <-> DB tab: same-name mapping with every configuration, and the
\* other mappings with the widgets' defaults (lines 436-444)
InitDB ==
    /\ mode = "db"
    /\ dialect \in Dialects
    /\ \E t \in InitialTables : dst_pk = t[1] /\ dst_unique = t[2] /\ dest0 = t[3]
    /\ \/ /\ raw_mapping = AutoMap
          /\ src_rows \in RowSeqs
          /\ chunk_size \in ChunkSizes
          /\ conf_policy \in Policies
          /\ continue_on_error \in BOOLEAN
       \/ /\ raw_mapping \in MappingChoices \ {AutoMap, Mapping(E_null, E_lit)}
          /\ src_rows \in ShortRowSeqs
          /\ chunk_size = MaxRows
          /\ conf_policy = "skip duplicates"
          /\ continue_on_error = TRUE

\* the File -> DB tab
InitFile ==
    /\ mode = "file"
    /\ dialect = "postgresql"
    /\ \E t \in InitialTables : dst_pk = t[1] /\ dst_unique = t[2] /\ dest0 = t[3]
    /\ \/ /\ raw_mapping = AutoMap
          /\ src_rows \in RowSeqs
          /\ chunk_size \in ChunkSizes
       \/ /\ raw_mapping \in MappingChoices \ {AutoMap}
          /\ src_rows \in ShortRowSeqs
          /\ chunk_size = MaxRows
    /\ conf_policy = "skip duplicates"
    /\ continue_on_error = TRUE

Init == (InitDB \/ InitFile) /\ InitRun /\ NormIdle

Next ==
    \/ MigrateNoMapping
    \/ MigrateStart
    \/ MigrateQueryFails
    \/ Fetch
    \/ FetchEnd
    \/ FetchFails
    \/ SetBasedOk
    \/ SetBasedUnsupported
    \/ SetBasedIntegrityError
    \/ SetBasedErrorContinue
    \/ SetBasedErrorRaise
    \/ FallbackInserted
    \/ FallbackDuplicate
    \/ FallbackConflictRejected
    \/ FallbackConflictRaise
    \/ FallbackErrorRejected
    \/ FallbackErrorRaise
    \/ LoadNoMapping
    \/ LoadMissingColumn
    \/ LoadStart
    \/ FileChunkOk
    \/ FileChunkFails
    \/ FileFinish

Spec == Init /\ [][Next]_vars

-----------------------------------------------------------------------------
(* A second run *)

\* what a completed run leaves: its counters (line 560) and the destination
RunResult ==
    [counters |-> Counters, committed |-> committed, chunk_size |-> chunk_size,
     set_failed |-> set_failed]

ResetRun ==
    /\ pc' = "idle"
    /\ pk_cols' = <<>>
    /\ pos' = 0
    /\ dict_rows' = <<>>
    /\ fb_i' = 0
    /\ total' = 0 /\ inserted' = 0 /\ duplicates' = 0 /\ rejected' = 0
    /\ rejected_rows' = <<>>
    /\ txn_failed' = FALSE
    /\ report' = NoReport
    /\ src_queries' = 0
    /\ dst_queries' = 0
    /\ batches_done' = 0
    /\ set_applied' = 0
    /\ set_failed' = FALSE
    /\ done' = 0
    /\ run_no' = 2
    /\ prev' = RunResult

\* line 446: the button is pressed again after a run that completed; the
\* same migration runs on the destination as the first run left it
RunAgain ==
    /\ mode = "db" /\ pc = "done" /\ run_no = 1
    /\ ResetRun
    /\ dest0' = committed
    /\ at_boundary' = <<0, 0, 0, committed>>
    /\ UNCHANGED <<mode, raw_mapping, src_rows, chunk_size, conf_policy,
                   continue_on_error, dialect, dst_pk, dst_unique, dest, committed,
                   norm_vars>>

\* lines 436 and 446: after a run that completed the destination is restored
\* to what it was, another chunk size is entered and the button is pressed again
RunRechunk ==
    /\ mode = "db" /\ pc = "done" /\ run_no = 1
    /\ ResetRun
    /\ chunk_size' \in ChunkSizes \ {chunk_size}
    /\ dest' = dest0
    /\ committed' = dest0
    /\ at_boundary' = <<0, 0, 0, dest0>>
    /\ UNCHANGED <<mode, raw_mapping, src_rows, conf_policy,
                   continue_on_error, dialect, dst_pk, dst_unique, dest0, norm_vars>>

\* a run that has fetched its first batch and is about to normalize it
\* (lines 493-499), with every column, type and setting of the checkbox
InitNorm ==
    /\ mode = "db"
    /\ raw_mapping = AutoMap
    /\ src_rows = <<[k |-> 1, bad |-> FALSE]>>
    /\ chunk_size = MaxRows
    /\ conf_policy = "skip duplicates"
    /\ continue_on_error = TRUE
    /\ dialect = "postgresql"
    /\ dst_pk = <<"id">> /\ dst_unique = TRUE /\ dest0 = <<>>
    /\ pk_cols = <<"id">>
    /\ pc = "normalize"
    /\ pos = 1
    /\ dict_rows = <<[id |-> 1, k |-> 1, bad |-> FALSE]>>
    /\ fb_i = 0
    /\ total = 1 /\ inserted = 0 /\ duplicates = 0 /\ rejected = 0
    /\ rejected_rows = <<>>
    /\ dest = dest0 /\ committed = dest0
    /\ txn_failed = FALSE
    /\ report = NoReport
    /\ src_queries = 1 /\ dst_queries = 2
    /\ batches_done = 0
    /\ at_boundary = <<0, 0, 0, dest0>>
    /\ set_applied = 0 /\ set_failed = FALSE /\ done = 0
    /\ run_no = 1 /\ prev = NoPrev
    /\ coerce_invalid \in BOOLEAN
    /\ val_type \in TypeClasses
    /\ val_col \in Columns
    /\ val_norm = <<>>

NextNorm == NormalizeOk \/ NormalizeRaises

SpecNorm == InitNorm /\ [][NextNorm]_vars

NextAgain == Next \/ RunAgain

SpecAgain == Init /\ [][NextAgain]_vars

NextRechunk == Next \/ RunRechunk

SpecRechunk == Init /\ [][NextRechunk]_vars

-----------------------------------------------------------------------------
(* Claims *)

DbRun == mode = "db"

\* the times a fetched row is in a table
Count(d, id) == Cardinality({j \in 1..Len(d) : d[j].id = id})

\* C1: at every batch boundary of a DB-to-DB run, and when the run has
\* completed, fetched = inserted_or_upserted + duplicates_skipped + rejected,
\* whatever the policy, continue_on_error and the write failures were.
C1_CountersAddUp ==
    (DbRun /\ pc \in {"fetch", "done"}) => total = inserted + duplicates + rejected

C1_Witness ==
    /\ DbRun /\ pc = "done" /\ batches_done >= 2
    /\ inserted > 0 /\ duplicates > 0 /\ rejected > 0

WriteErrors == {"IntegrityError", "DataError", "InternalError", "ProgrammingError"}

C4_NoUncountedDrop ==
    (DbRun /\ pc = "done" /\ conf_policy # "upsert/update (PG/MySQL)") =>
        inserted <= Cardinality({i \in 1..total : Count(committed, i) >= 1})

\* C5: no fetched row is written to the destination twice, and no fetched
\* row is counted twice, also when a batch is written row by row after its
\* set-based write failed.
C5_AppliedOnce ==
    DbRun => /\ \A i \in 1..MaxRows : Count(dest, i) <= 1
             /\ inserted + duplicates + rejected <= total

SecondRun == DbRun /\ run_no = 2

SkipWithKey == conf_policy = "skip duplicates" /\ PkCols # <<>>

\* C6: the second of two runs of the same migration under
\* SkipDuplicates with a known key ends with duplicates_skipped = fetched and
\* inserted_or_upserted = 0.
C6_SecondRunAllDuplicates ==
    (SecondRun /\ pc = "done" /\ SkipWithKey) => (duplicates = total /\ inserted = 0)

\* C7: the second of two runs of the same migration under SkipDuplicates with
\* a known key leaves the destination as the first run left it, the same rows
\* with the same content, on the set-based path and in row fallback.
C7_SecondRunChangesNothing ==
    (SecondRun /\ SkipWithKey) => (committed = prev.committed /\ (pc = "done" => dest = prev.committed))

C7_Witness ==
    /\ SecondRun /\ pc = "done" /\ SkipWithKey
    /\ total >= 2 /\ prev.counters[2] >= 1
    /\ Len(committed) >= 2
    /\ batches_done >= 2

RowsOf(d) == {d[j] : j \in 1..Len(d)}

CountRow(d, x) == Cardinality({j \in 1..Len(d) : d[j] = x})

SameContent(a, b) == \A x \in RowsOf(a) \cup RowsOf(b) : CountRow(a, x) = CountRow(b, x)

\* C8: two completed runs of the same migration on the same
\* destination that differ in the chunk size alone end with the same counters
\* and the same destination content.
C8_ChunkSizeIndependent ==
    (SecondRun /\ pc = "done") =>
        (Counters = prev.counters /\ SameContent(committed, prev.committed))

\* the rows of a batch whose key is in the table or earlier in the batch
ConflictingRows(d, rows) ==
    {i \in 1..Len(rows) :
        HasKey(d, rows[i].k) \/ \E j \in 1..(i - 1) : rows[j].k = rows[i].k}

\* C9: under Strict with continue_on_error, a batch in which exactly one row
\* violates the unique key ends with that row rejected, and it alone, and
\* with every other row of the batch inserted.
C9_OneConflictOneReject ==
    (/\ DbRun /\ pc = "fetch" /\ batches_done >= 1
     /\ conf_policy = "error (strict)" /\ continue_on_error /\ Unique
     /\ ~AnyBad(dict_rows)
     /\ Cardinality(ConflictingRows(at_boundary[4], dict_rows)) = 1)
    => /\ inserted = at_boundary[1] + Len(dict_rows) - 1
       /\ duplicates = at_boundary[2]
       /\ rejected = at_boundary[3] + 1
       /\ rejected_rows # <<>>
       /\ \E i \in ConflictingRows(at_boundary[4], dict_rows) :
             rejected_rows[Len(rejected_rows)].row = dict_rows[i]

\* the mapping names a source column that does not exist
NamesMissingColumn == \E d \in DestCols : raw_mapping[d] = E_nosuch

Started == pc # "idle"

\* C10 as claimed: a mapping that names a source column that does not exist
\* fails before any statement is executed against the source or the
\* destination, in the DB-to-DB run and in the file load.
C10_FailsBeforeAnyQuery ==
    (NamesMissingColumn /\ Started) =>
        (pc = "failed" /\ src_queries = 0 /\ dst_queries = 0)

\* C10 as amended: in the file load such a mapping fails (ValueError) before
\* any statement is executed.  The DB-to-DB run does not resolve the mapping:
\* it reads the destination's metadata, sends the SELECT to the source, and
\* fails with the source's error; no row is fetched and none is written.
C10_FailsBeforeAnyRow ==
    (NamesMissingColumn /\ Started) =>
        /\ pc = "failed" /\ report.kind = "error"
        /\ total = 0 /\ pos = 0 /\ committed = dest0 /\ dest = dest0
        /\ mode = "file" => (report.exc = "ValueError" /\ src_queries = 0 /\ dst_queries = 0)
        /\ mode = "db" => (report.exc = "ProgrammingError" /\ src_queries = 1 /\ dst_queries = 2)

C10_Witness ==
    /\ NamesMissingColumn /\ mode = "db" /\ pc = "failed"
    /\ src_rows # <<>>
    /\ dst_queries = 2

\* the run ended on a failure of the source: the SELECT was refused, or a
\* later fetch on the cursor failed
ExtractionFailed ==
    DbRun /\ pc = "failed" /\ (report.exc = "OperationalError" \/ pos = 0)

\* C11: when the source query or a later fetch fails, also after batches
\* were written, the run aborts and the destination is left as it was before
\* the run: no row of the run stays in it.
C11_ExtractionFailureLeavesNothing ==
    ExtractionFailed => (committed = dest0 /\ dest = dest0)

C11_Witness ==
    /\ ExtractionFailed /\ report.exc = "OperationalError"
    /\ batches_done >= 2 /\ inserted >= 2
    /\ at_boundary[4] # dest0

NeverOverwriting == {"skip duplicates", "upsert/update (PG/MySQL)"}

\* C12: under SkipDuplicates or Upsert, when key conflicts with rows already
\* in the destination are the only thing a write can fail on (no row is
\* refused for its data, no key comes twice from the source), nothing but a
\* failure of the source aborts the run, and no row is rejected: the rows
\* that conflict in row fallback are counted as duplicates and the run goes
\* on, whatever continue_on_error is.
C12_ConflictNeverFatal ==
    (/\ DbRun /\ conf_policy \in NeverOverwriting
     /\ ~AnyBad(src_rows) /\ ~SameKeyTwice(src_rows))
    => /\ pc = "failed" => ExtractionFailed
       /\ rejected = 0

Normalizing == val_col # <<>>

\* C13: normalizing a batch never raises an error to the run: whatever the
\* values, the type and the setting of coerce_invalid_to_null, the run goes
\* from normalization on to the write, with one value (coerced, null or the
\* original) for every value of the batch.
C13_NormalizeNeverRaises ==
    Normalizing => /\ pc # "failed"
                   /\ pc = "set_based" => Len(val_norm) = Len(val_col)

\* an empty text and a text that no type parses
InvalidInputs == {PyStr(<<>>), PyStr(<<"x", " ">>)}

InvalidCells == {i \in 1..Len(val_col) : val_col[i] \in InvalidInputs}

\* the types for which a text can be invalid
ParsingTypes == TypeClasses \ {"opaque", "text"}

UncoercedInvalid(type, x) ==
    CASE type \in {"int", "numeric"} -> x
      [] type \in {"timestamp", "date", "time"} -> PyNone
      [] type = "uuid" -> IF Strip(x.v) = <<>> THEN PyNone ELSE x
      [] type = "json" -> IF Strip(x.v) = <<>> THEN PyNone ELSE PyStr(Strip(x.v))

C14_UpsertOverwrites ==
    (/\ DbRun /\ pc = "done" /\ conf_policy = "upsert/update (PG/MySQL)"
     /\ Unique /\ ~AnyBad(src_rows))
    => \A i \in 1..Len(src_rows) :
          HasKey(dest0, src_rows[i].k) =>
              \E j \in 1..Len(committed) :
                  committed[j].k = src_rows[i].k /\ committed[j].id # 0

StrictRun == DbRun /\ conf_policy = "error (strict)"

StrictConflictEntersFallback ==
    (StrictRun /\ pc = "set_based" /\ pc' = "failed") => report'.exc # "IntegrityError"

C16_AlwaysRetried ==
    (DbRun /\ set_failed /\ batches_done = 0) => fb_i >= 1

\* a set-based write ends the run only without continue_on_error and only
\* with an error other than IntegrityError, and then no fallback is entered
SetBasedFatalOnlyIfNotContinue ==
    (DbRun /\ pc = "set_based" /\ pc' = "failed") =>
        /\ ~continue_on_error
        /\ report'.exc \in WriteErrors \ {"IntegrityError"}
        /\ fb_i' = fb_i

\* C16 as amended: a set-based write that fails with a constraint violation
\* is always retried through row fallback; one that fails with any other
\* error is retried through row fallback only if continue_on_error is set,
\* and otherwise aborts the run at once.
C16_RetriedUnlessOtherErrorAndNotContinue ==
    [][SetBasedFatalOnlyIfNotContinue]_vars

C16_Witness ==
    /\ DbRun /\ pc = "failed" /\ ~continue_on_error
    /\ set_failed /\ batches_done = 0 /\ fb_i = 0
    /\ report.exc = "DataError"
    /\ Len(dict_rows) >= 2

\* the reject entries of rows that the destination accepts as data, on a
\* backend where a failed statement does not fail the ones after it: the
\* rows rejected for a key conflict
ConflictRejects ==
    {i \in 1..Len(rejected_rows) : ~rejected_rows[i].row.bad /\ dialect # "postgresql"}

SkipRun == DbRun /\ conf_policy = "skip duplicates"

\* C18: under SkipDuplicates a batch is written by a set-based statement
\* only if a key set is known; without one every batch goes to row fallback.
C18_SetBasedOnlyWithKey ==
    (SkipRun /\ pk_cols = <<>> /\ batches_done >= 1) => fb_i >= 1

\* the backends on which the code issues an ignore-on-conflict statement
IssuesIgnoreInsert ==
    dialect = "mysql" \/ (dialect = "postgresql" /\ pk_cols # <<>>)

SkipBatchStep ==
    (SkipRun /\ pc = "set_based") =>
        IF IssuesIgnoreInsert
        THEN /\ pc' = "fetch" => /\ inserted' = inserted + Len(dict_rows)
                                 /\ duplicates' = duplicates
                                 /\ rejected' = rejected
             /\ pc' = "fallback" => set_failed'
        ELSE /\ pc' = "fallback"
             /\ dest' = dest /\ inserted' = inserted
             /\ set_failed' = set_failed /\ txn_failed' = txn_failed

\* C18 as amended: under SkipDuplicates the ignore-on-conflict statement is
\* issued on PostgreSQL if a key set is known and on MySQL always, also
\* without a known key set; when it succeeds all rows of the batch are
\* counted as inserted.  On every other backend, and on PostgreSQL without a
\* known key set, the batch goes directly to row fallback and no set-based
\* statement is attempted.
C18_SetBasedPerBackend == [][SkipBatchStep]_vars

C18_Witness ==
    /\ SkipRun /\ dialect = "mysql" /\ pk_cols = <<>>
    /\ pc = "done" /\ batches_done >= 2 /\ fb_i = 0
    /\ inserted = total /\ total >= 2

\* the rows pos - n + 1 .. pos of the source, as fetched
Delivered(n) ==
    [i \in 1..n |-> [id |-> pos - n + i, k |-> src_rows[pos - n + i].k,
                     bad |-> src_rows[pos - n + i].bad]]

BatchInvariant ==
    DbRun =>
        /\ total = pos
        /\ pos <= Len(src_rows)
        /\ pc \in {"set_based", "fallback"} =>
              /\ Len(dict_rows) \in 1..chunk_size
              /\ dict_rows = Delivered(Len(dict_rows))
        /\ pc \in {"set_based", "fallback"} =>
              batches_done * chunk_size >= pos - Len(dict_rows)
        /\ pc \in {"fetch", "done"} => batches_done * chunk_size >= pos
        /\ pc \in {"fetch", "done"} /\ batches_done >= 1 =>
              (batches_done - 1) * chunk_size < pos
        /\ pc = "done" => total = Len(src_rows)

BatchStep ==
    DbRun =>
        /\ pos' # pos => /\ pc = "fetch" /\ pc' = "set_based"
                         /\ pos' = pos + Len(dict_rows')
        /\ (pc = "fetch" /\ pc' = "done") => pos = Len(src_rows)

\* C20: every batch has between 1 and chunk_size rows; the batches, in the
\* order delivered, are the source's rows in order, none skipped, repeated
\* or reordered, so that fetched is the number of source rows on
\* completion; a batch is fetched only when the write of the one before has
\* finished; the loop ends at the first empty fetch.
C20_BatchesPartitionSource == []BatchInvariant /\ [][BatchStep]_vars

C20_Witness ==
    /\ DbRun /\ pc = "done"
    /\ chunk_size = 2 /\ total = MaxRows /\ batches_done = 2
    /\ Len(dict_rows) = 1 /\ dict_rows[1].id = MaxRows

RejectListInvariant ==
    DbRun =>
        /\ Len(rejected_rows) = rejected
        /\ rejected_rows # <<>> => continue_on_error
        /\ \A i, j \in 1..Len(rejected_rows) :
              i < j => rejected_rows[i].row.id < rejected_rows[j].row.id
        /\ \A i \in 1..Len(rejected_rows) :
              /\ rejected_rows[i].row.id \in 1..pos
              /\ rejected_rows[i].row.k = src_rows[rejected_rows[i].row.id].k

RejectListStep ==
    (DbRun /\ rejected_rows' # rejected_rows) =>
        /\ pc = "fallback" /\ continue_on_error
        /\ Len(rejected_rows') = Len(rejected_rows) + 1
        /\ SubSeq(rejected_rows', 1, Len(rejected_rows)) = rejected_rows
        /\ rejected_rows'[Len(rejected_rows')].row = dict_rows[fb_i]
        /\ rejected' = rejected + 1

\* C21: in every state of a run the reject list has as many entries as the
\* rejected counter says; an entry is appended only in row fallback and only
\* with continue_on_error, the entries are in the order the rows were
\* fetched, and an entry once appended is never changed or removed.
C21_RejectListMatchesCounter == []RejectListInvariant /\ [][RejectListStep]_vars

C21_Witness ==
    /\ DbRun /\ pc = "done" /\ rejected = 2 /\ batches_done >= 2
    /\ rejected_rows[1].reason = "IntegrityError"
    /\ rejected_rows[2].reason # "IntegrityError"
    /\ report.rejects = rejected_rows

FileRun == mode = "file"

\* the first n rows of the file, as the destination holds them
FileRowsUpTo(n) == [i \in 1..n |-> [k |-> src_rows[i].k, id |-> i]]

ChunkInvariant ==
    (FileRun /\ pc \in {"file_loop", "failed", "done"}) =>
        /\ done <= total
        /\ done = IF batches_done * chunk_size < total
                  THEN batches_done * chunk_size ELSE total
        /\ committed = dest0 \o FileRowsUpTo(done)
        /\ dest = committed
        /\ report.kind = "success" <=> pc = "done"
        /\ pc = "done" => (done = total /\ report.counters = <<total>>)
        /\ pc = "failed" => (report.kind = "error" /\ (total > 0 => done < total))

ChunkStep ==
    /\ (FileRun /\ pc = "file_loop" /\ pc' = "file_loop") =>
          /\ done < total
          /\ done' = (IF done + chunk_size < total THEN done + chunk_size ELSE total)
          /\ committed' = committed \o [i \in 1..(done' - done) |->
                                           [k |-> src_rows[done + i].k, id |-> done + i]]
    /\ (FileRun /\ pc = "file_loop" /\ pc' # "file_loop") =>
          UNCHANGED <<done, committed, dest>>
    /\ (FileRun /\ pc \in {"failed", "done"}) =>
          UNCHANGED <<pc, done, committed, dest, report>>

\* C22: in the file load the chunks [start, end) partition the rows
\* 0..total-1 in order and each chunk is inserted and committed on its own;
\* when the insert of a chunk fails the load stops at once, the chunks before
\* it stay committed, that chunk and the later ones are not inserted, and
\* success with total rows is reported only when every chunk was inserted.
C22_ChunksCommitOneByOne == []ChunkInvariant /\ [][ChunkStep]_vars

C22_Witness ==
    /\ FileRun /\ pc = "failed"
    /\ batches_done >= 1 /\ done < total
    /\ dict_rows # <<>> /\ dict_rows[1].id = done + 1
    /\ report.exc = "IntegrityError"
    /\ committed = dest0 \o FileRowsUpTo(done)

====
